---- MODULE Spec2Model ----
(***************************************************************************)
(* BTC ticker status-bar extension (src/unnamed/part_000, the version that *)
(* recreates the status bar item; src/src/extension.ts is the earlier      *)
(* version with the same poller).                                          *)
(*                                                                         *)
(* One action is one turn of the single-threaded event loop: a host call   *)
(* (activation, command, configuration change, disposal), an interval      *)
(* timer firing, or a network event on an open request, together with all  *)
(* promise continuations (microtasks) the turn makes runnable.             *)
(*                                                                         *)
(* Strings that the code builds or parses are tuples of one-character      *)
(* strings; a number is a record: [k |-> "fin", milli |-> thousandths],    *)
(* [k |-> "inf"] or [k |-> "nan"].                                         *)
(***************************************************************************)
EXTENDS Integers, Sequences, FiniteSets, TLC

(* ------------------------------ bounds -------------------------------- *)
\* refreshOnce calls (activation, command, timer tick, configuration change)
MaxTriggers == 2
\* clock ticks counted for one request before the count saturates
MaxElapsed == 3
\* milliseconds of one clock tick
TickMs == 7500

(* ------------------------ program constants --------------------------- *)
TimeoutMs == 15000
MinIntervalSecs == 10
DefaultIntervalSecs == 60
DefaultPriority == 100
\* Node's TIMEOUT_MAX: setInterval uses a delay of 1 ms outside 1..2^31-1
TimeoutMax == 2147483647
MsPerSecond == 1000

TimeoutTicks == TimeoutMs \div TickMs

(* ------------------------------ strings ------------------------------- *)
Digits == {"0", "1", "2", "3", "4", "5", "6", "7", "8", "9"}

DigitVal(c) ==
  CASE c = "0" -> 0 [] c = "1" -> 1 [] c = "2" -> 2 [] c = "3" -> 3
    [] c = "4" -> 4 [] c = "5" -> 5 [] c = "6" -> 6 [] c = "7" -> 7
    [] c = "8" -> 8 [] c = "9" -> 9

DigitChar(d) ==
  CASE d = 0 -> "0" [] d = 1 -> "1" [] d = 2 -> "2" [] d = 3 -> "3"
    [] d = 4 -> "4" [] d = 5 -> "5" [] d = 6 -> "6" [] d = 7 -> "7"
    [] d = 8 -> "8" [] d = 9 -> "9"

LoadingText == <<"B", "T", "C", ":", " ", "...">>
PlaceholderText == <<"B", "T", "C", ":", " ", "-", "-">>
InfinityWord == <<"I", "n", "f", "i", "n", "i", "t", "y">>

RECURSIVE TrimLeft(_)
TrimLeft(s) == IF s # <<>> /\ Head(s) = " " THEN TrimLeft(Tail(s)) ELSE s

RECURSIVE TrimRight(_)
TrimRight(s) ==
  IF s # <<>> /\ s[Len(s)] = " " THEN TrimRight(SubSeq(s, 1, Len(s) - 1)) ELSE s

RECURSIVE DigitsValue(_)
DigitsValue(s) ==
  IF s = <<>> THEN 0 ELSE DigitsValue(SubSeq(s, 1, Len(s) - 1)) * 10 + DigitVal(s[Len(s)])

AllDigits(s) == \A i \in 1..Len(s) : s[i] \in Digits

\* position of the first "." of s, or 0
DotAt(s) ==
  IF \E i \in 1..Len(s) : s[i] = "."
    THEN CHOOSE i \in 1..Len(s) : s[i] = "." /\ \A j \in 1..(i - 1) : s[j] # "."
    ELSE 0

\* thousandths denoted by the fraction digits f (digits after the third are dropped)
FractionMilli(f) ==
  LET p == f \o <<"0", "0", "0">> IN DigitsValue(SubSeq(p, 1, 3))

\* StrUnsignedDecimalLiteral without exponent: digits, digits. , digits.digits , .digits
IsDecimal(s) ==
  LET d == DotAt(s) IN
    IF d = 0 THEN s # <<>> /\ AllDigits(s)
    ELSE /\ AllDigits(SubSeq(s, 1, d - 1))
         /\ AllDigits(SubSeq(s, d + 1, Len(s)))
         /\ Len(s) > 1

DecimalMilli(s) ==
  LET d == DotAt(s) IN
    IF d = 0 THEN DigitsValue(s) * 1000
    ELSE DigitsValue(SubSeq(s, 1, d - 1)) * 1000 + FractionMilli(SubSeq(s, d + 1, Len(s)))

Fin(m) == [k |-> "fin", milli |-> m]
NaN == [k |-> "nan", milli |-> 0]
Inf == [k |-> "inf", milli |-> 0]

\* Number(amount) for a string amount: surrounding white space is dropped, the
\* empty string is 0, then an optional sign and "Infinity" or a decimal literal.
ToNumber(s) ==
  LET t == TrimRight(TrimLeft(s))
      signed == t # <<>> /\ Head(t) \in {"+", "-"}
      neg == t # <<>> /\ Head(t) = "-"
      u == IF signed THEN Tail(t) ELSE t
  IN  IF t = <<>> THEN Fin(0)
      ELSE IF u = InfinityWord THEN Inf
      ELSE IF IsDecimal(u) THEN Fin(IF neg THEN 0 - DecimalMilli(u) ELSE DecimalMilli(u))
      ELSE NaN

IsFinite(v) == v.k = "fin"

RECURSIVE DigitsOf(_)
DigitsOf(n) == IF n < 10 THEN <<DigitChar(n)>> ELSE DigitsOf(n \div 10) \o <<DigitChar(n % 10)>>

Pad3(n) == <<DigitChar(n \div 100), DigitChar((n \div 10) % 10), DigitChar(n % 10)>>

RECURSIVE Grouped(_)
Grouped(n) == IF n < 1000 THEN DigitsOf(n) ELSE Grouped(n \div 1000) \o <<",">> \o Pad3(n % 1000)

\* Intl.NumberFormat('en-US', currency USD, at most 2 fraction digits), then
\* the first "$" replaced by "$ "
formatUsd(v) ==
  IF v.k = "nan" THEN <<"$", " ", "N", "a", "N">>
  ELSE IF v.k = "inf" THEN <<"$", " ", "oo">>
  ELSE
  LET abs == IF v.milli < 0 THEN 0 - v.milli ELSE v.milli
      cents == (abs + 5) \div 10
      sign == IF v.milli < 0 THEN <<"-">> ELSE <<>>
  IN  sign \o <<"$", " ">> \o Grouped(cents \div 100) \o <<".">>
        \o <<DigitChar((cents % 100) \div 10), DigitChar(cents % 10)>>

PriceText(v) == <<"B", "T", "C", " ">> \o formatUsd(v)

(* --------------------------- error values ----------------------------- *)
Err(m) == [message |-> m, code |-> 0]
HttpErr(status) == [message |-> "HTTP", code |-> status]
NoError == Err("")

(* ------------------------- inputs of the model ------------------------ *)
\* an optional value: <<>> (absent) or <<v>>
Get(opt, default) == IF opt = <<>> THEN default ELSE opt[1]

\* btcTicker.* as the user may have set it (settings.json is not range-checked)
Configured(s, a, p, c) == [secs |-> s, align |-> a, prio |-> p, color |-> c]
Configs ==
  { Configured(<<>>, <<>>, <<>>, <<>>),
    Configured(<<-5>>, <<>>, <<>>, <<"charts.red">>),
    Configured(<<0>>, <<"left">>, <<>>, <<>>),
    Configured(<<30>>, <<>>, <<50>>, <<>>),
    Configured(<<2147484>>, <<>>, <<>>, <<>>) }

StatusCodes == {0, 199, 200, 299, 300}

AmountStrings ==
  { <<"1", "2", "3", "4", ".", "5", "6", "7">>, <<"-", "5">>, <<>>, <<" ">>,
    <<"a", "b", "c">>, InfinityWord }

\* a response body: not JSON, or JSON text denoting null, {}, {data:{}} or
\* {data:{amount:s}}
JsonNull == [t |-> "null", data |-> <<>>]
JsonObject(d) == [t |-> "object", data |-> d]
JsonValues ==
  {JsonNull, JsonObject(<<>>), JsonObject(<<[amount |-> <<>>]>>)}
    \cup {JsonObject(<<[amount |-> <<a>>]>>) : a \in AmountStrings}
Bodies ==
  {[wellFormed |-> FALSE, value |-> JsonNull]}
    \cup {[wellFormed |-> TRUE, value |-> j] : j \in JsonValues}

SocketErrors == {Err("read ECONNRESET")}

(* ------------------------------ fetching ------------------------------ *)
Resolved(j) == [ok |-> TRUE, json |-> j, error |-> NoError]
Rejected(e) == [ok |-> FALSE, json |-> JsonNull, error |-> e]

\* the response callback: TRUE when the status makes it reject at once
BadStatus(statusCode) == statusCode < 200 \/ statusCode >= 300

\* res.on('end'): JSON.parse(raw) resolves the promise or its exception rejects it
OnEnd(raw) ==
  IF raw.wellFormed THEN Resolved(raw.value) ELSE Rejected(Err("Unexpected token"))

Price(v) == [ok |-> TRUE, value |-> v, error |-> NoError]
Failure(e) == [ok |-> FALSE, value |-> NaN, error |-> e]

\* fetchBtcUsdPrice without the Number.isFinite test
fetchBtcUsdPrice_NoFiniteCheck(got) ==
  IF ~got.ok THEN Failure(got.error)
  ELSE IF got.json.t = "null" THEN Failure(Err("Cannot read properties of null"))
  ELSE LET amount == IF got.json.data = <<>> THEN <<>> ELSE got.json.data[1].amount IN
    IF amount = <<>> \/ amount[1] = <<>> THEN Failure(Err("Unexpected Coinbase response"))
    ELSE Price(ToNumber(amount[1]))

\* fetchBtcUsdPrice after its await: got is how httpsGetJson settled
fetchBtcUsdPrice(got) ==
  IF ~got.ok THEN Failure(got.error)
  ELSE IF got.json.t = "null" THEN Failure(Err("Cannot read properties of null"))
  ELSE LET amount == IF got.json.data = <<>> THEN <<>> ELSE got.json.data[1].amount IN
    IF amount = <<>> \/ amount[1] = <<>> THEN Failure(Err("Unexpected Coinbase response"))
    ELSE LET value == ToNumber(amount[1]) IN
      IF ~IsFinite(value) THEN Failure(Err("Invalid price")) ELSE Price(value)

(* ------------------------------- state -------------------------------- *)
VARIABLES
  phase,             \* "inactive", "active" (activate has run), "disposed"
  cfg,               \* the host's btcTicker configuration
  otherConfig,       \* the host's configuration outside btcTicker
  items,             \* every status bar item created; `item` is the last one
  currentAlignment, currentPriority,
  inFlight,          \* TRUE when the variable inFlight holds a promise
  timer,             \* the handle in the variable timer, 0 for null
  timers,            \* the interval timers that are running: [id, delay in ms]
  reqs,              \* requests whose promise has not settled, oldest first
  requests,          \* requests issued so far
  triggers,          \* refreshOnce calls so far
  waiters,           \* btcTicker.refresh invocations awaiting refreshOnce
  cmdOutcome,        \* how the last finished btcTicker.refresh invocation ended
  lastPoll,          \* what the last completed fetch yielded
  lastSettle         \* how the promise of the last completed poll settled

vars ==
  <<phase, cfg, otherConfig, items, currentAlignment, currentPriority, inFlight,
    timer, timers, reqs, requests, triggers, waiters, cmdOutcome, lastPoll, lastSettle>>

\* the variables of activate's closure and the bookkeeping its functions touch
Prog ==
  [items |-> items, currentAlignment |-> currentAlignment,
   currentPriority |-> currentPriority, inFlight |-> inFlight, timer |-> timer,
   timers |-> timers, reqs |-> reqs, requests |-> requests, waiters |-> waiters,
   cmdOutcome |-> cmdOutcome, lastPoll |-> lastPoll, lastSettle |-> lastSettle,
   rejected |-> <<>>]

SetProg(s) ==
  /\ items' = s.items
  /\ currentAlignment' = s.currentAlignment
  /\ currentPriority' = s.currentPriority
  /\ inFlight' = s.inFlight
  /\ timer' = s.timer
  /\ timers' = s.timers
  /\ reqs' = s.reqs
  /\ requests' = s.requests
  /\ waiters' = s.waiters
  /\ cmdOutcome' = s.cmdOutcome
  /\ lastPoll' = s.lastPoll
  /\ lastSettle' = s.lastSettle

\* the last completed poll: its outcome, the JSON value it was given, and
\* whether the poll completed before it had yielded a price
NoPoll ==
  [done |-> FALSE, ok |-> FALSE, value |-> NaN, error |-> NoError, json |-> JsonNull,
   before |-> "none"]
Polled(outcome, got, previous) ==
  [done |-> TRUE, ok |-> outcome.ok, value |-> outcome.value, error |-> outcome.error,
   json |-> got.json,
   before |-> IF ~previous.done THEN "none" ELSE IF previous.ok THEN "price" ELSE "failure"]

InitialTooltip == [kind |-> "initial", error |-> NoError]
SuccessTooltip == [kind |-> "success", error |-> NoError]
ErrorTooltip(e) == [kind |-> "error", error |-> e]

Init ==
  /\ phase = "inactive"
  /\ cfg \in Configs
  /\ otherConfig = 0
  /\ items = <<>>
  /\ currentAlignment = "right"
  /\ currentPriority = DefaultPriority
  /\ inFlight = FALSE
  /\ timer = 0
  /\ timers = {}
  /\ reqs = <<>>
  /\ requests = 0
  /\ triggers = 0
  /\ waiters = 0
  /\ cmdOutcome = "none"
  /\ lastPoll = NoPoll
  /\ lastSettle = "none"

(* --------------------------- configuration ---------------------------- *)
getConfig(c) ==
  [refreshIntervalSeconds |-> Get(c.secs, DefaultIntervalSecs),
   statusBarAlignment |-> Get(c.align, "right"),
   statusBarPriority |-> Get(c.prio, DefaultPriority),
   statusBarColor |-> Get(c.color, "charts.green")]

(* --------------------------- status bar item -------------------------- *)
\* assignments to fields of `item`, the item created last
SetItem(itms, txt, tip) ==
  [itms EXCEPT ![Len(itms)] = [@ EXCEPT !.text = txt, !.tooltip = tip]]
SetText(itms, txt) == [itms EXCEPT ![Len(itms)] = [@ EXCEPT !.text = txt]]
SetColor(itms, col) == [itms EXCEPT ![Len(itms)] = [@ EXCEPT !.color = col]]
DisposeItem(itms) ==
  IF itms = <<>> THEN itms ELSE [itms EXCEPT ![Len(itms)] = [@ EXCEPT !.disposed = TRUE]]

\* createStatusBarItem without the disposal of the existing item
createStatusBarItem_NoDispose(s, c) ==
  LET g == getConfig(c)
      alignment == IF g.statusBarAlignment = "left" THEN "left" ELSE "right"
      created ==
        [alignment |-> alignment, priority |-> g.statusBarPriority,
         color |-> g.statusBarColor, text |-> LoadingText, tooltip |-> InitialTooltip,
         disposed |-> FALSE]
  IN  [s EXCEPT !.items = Append(s.items, created),
                !.currentAlignment = g.statusBarAlignment,
                !.currentPriority = g.statusBarPriority]

createStatusBarItem(s, c) ==
  LET g == getConfig(c)
      alignment == IF g.statusBarAlignment = "left" THEN "left" ELSE "right"
      created ==
        [alignment |-> alignment, priority |-> g.statusBarPriority,
         color |-> g.statusBarColor, text |-> LoadingText, tooltip |-> InitialTooltip,
         disposed |-> FALSE]
  IN  [s EXCEPT !.items = Append(DisposeItem(s.items), created),
                !.currentAlignment = g.statusBarAlignment,
                !.currentPriority = g.statusBarPriority]

(* ----------------------------- refreshOnce ---------------------------- *)
NewRequest == [state |-> "sent", idle |-> 0, elapsed |-> 0]

\* a poll that keeps writing to the item that activate created
TryCatch_FirstItem(s, outcome) ==
  IF outcome.ok
    THEN [s EXCEPT !.items[1] = [@ EXCEPT !.text = PriceText(outcome.value),
                                          !.tooltip = SuccessTooltip],
                   !.lastSettle = "fulfilled"]
    ELSE [s EXCEPT !.items[1] = [@ EXCEPT !.text = PlaceholderText,
                                          !.tooltip = ErrorTooltip(outcome.error)],
                   !.lastSettle = "fulfilled"]

\* a catch block that sets the tooltip and leaves the text alone
TryCatch_KeepsText(s, outcome) ==
  IF outcome.ok
    THEN [s EXCEPT !.items = SetItem(s.items, PriceText(outcome.value), SuccessTooltip),
                   !.lastSettle = "fulfilled"]
    ELSE [s EXCEPT !.items = SetItem(s.items, s.items[Len(s.items)].text,
                                     ErrorTooltip(outcome.error)),
                   !.lastSettle = "fulfilled"]

\* a poll without the catch block: the failure rejects the promise of the poll
TryCatch_NoCatch(s, outcome) ==
  IF outcome.ok
    THEN [s EXCEPT !.items = SetItem(s.items, PriceText(outcome.value), SuccessTooltip),
                   !.lastSettle = "fulfilled"]
    ELSE [s EXCEPT !.lastSettle = "rejected"]

\* a success branch that renders the price of the poll before, when there is one
TryCatch_PreviousPrice(s, outcome) ==
  IF outcome.ok
    THEN [s EXCEPT !.items =
                     SetItem(s.items,
                             PriceText(IF s.lastPoll.ok THEN s.lastPoll.value ELSE outcome.value),
                             SuccessTooltip),
                   !.lastSettle = "fulfilled"]
    ELSE [s EXCEPT !.items = SetItem(s.items, PlaceholderText, ErrorTooltip(outcome.error)),
                   !.lastSettle = "fulfilled"]

\* the try/catch of the poll, after the await: price or placeholder; the
\* promise of the poll is fulfilled either way
TryCatch(s, outcome) ==
  IF outcome.ok
    THEN [s EXCEPT !.items = SetItem(s.items, PriceText(outcome.value), SuccessTooltip),
                   !.lastSettle = "fulfilled"]
    ELSE [s EXCEPT !.items = SetItem(s.items, PlaceholderText, ErrorTooltip(outcome.error)),
                   !.lastSettle = "fulfilled"]

\* finally: the marker is cleared
Finally(s) == [s EXCEPT !.inFlight = FALSE]

\* a poll that sends the request again when it has failed
Continue_Retry(s, got) ==
  LET outcome == fetchBtcUsdPrice(got)
      done == Finally(TryCatch(s, outcome))
      told == [done EXCEPT !.lastPoll = Polled(outcome, got, s.lastPoll),
                           !.waiters = 0,
                           !.cmdOutcome = IF s.waiters > 0 THEN done.lastSettle ELSE s.cmdOutcome]
  IN  IF outcome.ok THEN told
      ELSE [told EXCEPT !.reqs = Append(told.reqs, NewRequest),
                        !.requests = told.requests + 1,
                        !.inFlight = TRUE]

\* the poll resumes with got, the way httpsGetJson settled; then every
\* btcTicker.refresh invocation awaiting the poll resumes with its outcome
Continue(s, got) ==
  LET outcome == fetchBtcUsdPrice(got)
      done == Finally(TryCatch(s, outcome))
  IN  [done EXCEPT !.lastPoll = Polled(outcome, got, s.lastPoll),
                   !.waiters = 0,
                   !.cmdOutcome = IF s.waiters > 0 THEN done.lastSettle ELSE s.cmdOutcome]

\* a poll that does not show the loading text when it starts
IIFEToAwait_NoLoadingText(s, throws) ==
  LET shown == [s EXCEPT !.requests = s.requests + 1]
  IN  IF throws THEN [shown EXCEPT !.rejected = <<Err("request failed")>>]
      ELSE [shown EXCEPT !.reqs = Append(s.reqs, NewRequest)]

\* the poll up to its await: the loading text, and https.get either throws
\* (the promise is rejected before anyone awaits it) or sends the request
IIFEToAwait(s, throws) ==
  LET shown == [s EXCEPT !.items = SetText(s.items, LoadingText),
                         !.requests = s.requests + 1]
  IN  IF throws THEN [shown EXCEPT !.rejected = <<Err("request failed")>>]
      ELSE [shown EXCEPT !.reqs = Append(s.reqs, NewRequest)]

\* inFlight = (async () => { ... })()
AssignInFlight(s) == [s EXCEPT !.inFlight = TRUE]

\* the promise jobs of the turn: a rejection that is already there is delivered
Microtasks(s) ==
  IF s.rejected = <<>> THEN s
  ELSE Continue([s EXCEPT !.rejected = <<>>], Rejected(s.rejected[1]))

\* a poll whose failure is thrown before its first await: the finally block runs
\* before the promise of the poll is stored in inFlight
StartPoll_SyncFinally(s, throws) == AssignInFlight(Microtasks(IIFEToAwait(s, throws)))

\* an await always suspends, so the marker is assigned before the poll can end
StartPoll(s, throws) == Microtasks(AssignInFlight(IIFEToAwait(s, throws)))

\* refreshOnce without the test of inFlight
refreshOnce_NoGuard(s, throws) == StartPoll(s, throws)

refreshOnce(s, throws) == IF s.inFlight THEN s ELSE StartPoll(s, throws)

(* ------------------------------ the timer ----------------------------- *)
Max(a, b) == IF a >= b THEN a ELSE b

\* the delay setInterval uses for Math.max(10, secs) * 1000: the value itself
\* when it is in 1..TimeoutMax, and 1 ms otherwise
IntervalDelay(secs) ==
  LET floorSecs == Max(MinIntervalSecs, secs) IN
    IF floorSecs > TimeoutMax \div MsPerSecond THEN 1 ELSE floorSecs * MsPerSecond

clearInterval(s) == [s EXCEPT !.timers = {t \in s.timers : t.id # s.timer}]

\* startTimer without clearInterval
startTimer_NoClear(s, c) ==
  LET secs == getConfig(c).refreshIntervalSeconds
      id == s.timer + 1
  IN  [s EXCEPT !.timers = s.timers \cup {[id |-> id, delay |-> IntervalDelay(secs)]},
                !.timer = id]

startTimer(s, c) ==
  LET secs == getConfig(c).refreshIntervalSeconds
      cleared == IF s.timer # 0 THEN clearInterval(s) ELSE s
      id == s.timer + 1
  IN  [cleared EXCEPT !.timers = cleared.timers \cup {[id |-> id, delay |-> IntervalDelay(secs)]},
                      !.timer = id]

(* ------------------------------ host calls ---------------------------- *)
activate(s, c, throws) ==
  refreshOnce(startTimer(createStatusBarItem(s, c), c), throws)

\* the host activates the extension
Activate ==
  /\ phase = "inactive"
  /\ \E throws \in BOOLEAN : SetProg(activate(Prog, cfg, throws))
  /\ phase' = "active"
  /\ triggers' = triggers + 1
  /\ UNCHANGED <<cfg, otherConfig>>

\* a command handler that calls refreshOnce without awaiting it
refreshCommand_NoAwait(s, throws) ==
  [refreshOnce(s, throws) EXCEPT !.cmdOutcome = "fulfilled"]

\* async () => { await refreshOnce(); }: the invocation waits for the promise
\* that refreshOnce returns
refreshCommand(s, throws) == refreshOnce([s EXCEPT !.waiters = s.waiters + 1], throws)

\* the command btcTicker.refresh (also the click on the item)
RefreshCommand ==
  /\ phase = "active"
  /\ triggers < MaxTriggers
  /\ \E throws \in BOOLEAN : SetProg(refreshCommand(Prog, throws))
  /\ triggers' = triggers + 1
  /\ UNCHANGED <<phase, cfg, otherConfig>>

\* an interval timer fires
TimerTick ==
  /\ triggers < MaxTriggers
  /\ \E t \in timers, throws \in BOOLEAN : SetProg(refreshOnce(Prog, throws))
  /\ triggers' = triggers + 1
  /\ UNCHANGED <<phase, cfg, otherConfig>>

\* a configuration listener that leaves the timer as it is
onDidChangeConfiguration_KeepsTimer(s, c, throws) ==
  LET g == getConfig(c)
      shown ==
        IF g.statusBarAlignment # s.currentAlignment \/ g.statusBarPriority # s.currentPriority
          THEN LET currentText == s.items[Len(s.items)].text
                   currentTooltip == s.items[Len(s.items)].tooltip
                   made == createStatusBarItem(s, c)
               IN  [made EXCEPT !.items = SetItem(made.items, currentText, currentTooltip)]
          ELSE [s EXCEPT !.items = SetColor(s.items, g.statusBarColor)]
  IN  refreshOnce(shown, throws)

onDidChangeConfiguration(s, c, throws) ==
  LET g == getConfig(c)
      shown ==
        IF g.statusBarAlignment # s.currentAlignment \/ g.statusBarPriority # s.currentPriority
          THEN LET currentText == s.items[Len(s.items)].text
                   currentTooltip == s.items[Len(s.items)].tooltip
                   made == createStatusBarItem(s, c)
               IN  [made EXCEPT !.items = SetItem(made.items, currentText, currentTooltip)]
          ELSE [s EXCEPT !.items = SetColor(s.items, g.statusBarColor)]
  IN  refreshOnce(startTimer(shown, c), throws)

\* the user changes btcTicker settings
ConfigChange ==
  /\ phase = "active"
  /\ triggers < MaxTriggers
  /\ \E c \in Configs \ {cfg}, throws \in BOOLEAN :
       /\ cfg' = c
       /\ SetProg(onDidChangeConfiguration(Prog, c, throws))
  /\ triggers' = triggers + 1
  /\ UNCHANGED <<phase, otherConfig>>

\* a configuration change for which affectsConfiguration('btcTicker') is false
OtherConfigChange ==
  /\ phase = "active"
  /\ otherConfig' = 1 - otherConfig
  /\ UNCHANGED <<phase, cfg, items, currentAlignment, currentPriority, inFlight, timer,
                 timers, reqs, requests, triggers, waiters, cmdOutcome, lastPoll, lastSettle>>

\* a disposal that leaves the interval timer running
Dispose_LeavesTimer ==
  /\ phase = "active"
  /\ phase' = "disposed"
  /\ items' = [i \in 1..Len(items) |-> [items[i] EXCEPT !.disposed = TRUE]]
  /\ UNCHANGED <<cfg, otherConfig, currentAlignment, currentPriority, inFlight, timer,
                 timers, reqs, requests, triggers, waiters, cmdOutcome, lastPoll, lastSettle>>

\* context.subscriptions are disposed: the command, the items, the
\* configuration listener and the timer
Dispose ==
  /\ phase = "active"
  /\ phase' = "disposed"
  /\ items' = [i \in 1..Len(items) |-> [items[i] EXCEPT !.disposed = TRUE]]
  /\ timers' = IF timer # 0 THEN clearInterval(Prog).timers ELSE timers
  /\ UNCHANGED <<cfg, otherConfig, currentAlignment, currentPriority, inFlight, timer,
                 reqs, requests, triggers, waiters, cmdOutcome, lastPoll, lastSettle>>

(* ---------------------------- network events -------------------------- *)
Live(r) == r.state \in {"sent", "body"}

\* the socket's idle timeout is not due yet
InTime(r) == r.idle < TimeoutTicks

RemoveAt(q, i) == SubSeq(q, 1, i - 1) \o SubSeq(q, i + 1, Len(q))

\* request i settles: its poll resumes
Complete(i, got) ==
  /\ SetProg(Continue([Prog EXCEPT !.reqs = RemoveAt(reqs, i)], got))
  /\ UNCHANGED <<phase, cfg, otherConfig, triggers>>

OnlyReqs(q) ==
  /\ reqs' = q
  /\ UNCHANGED <<phase, cfg, otherConfig, items, currentAlignment, currentPriority,
                 inFlight, timer, timers, requests, triggers, waiters, cmdOutcome,
                 lastPoll, lastSettle>>

\* the response callback: the status line and headers have arrived
OnResponse ==
  \E i \in 1..Len(reqs), statusCode \in StatusCodes :
    /\ reqs[i].state = "sent"
    /\ InTime(reqs[i])
    /\ IF BadStatus(statusCode)
         THEN Complete(i, Rejected(HttpErr(statusCode)))
         ELSE OnlyReqs([reqs EXCEPT ![i] = [@ EXCEPT !.state = "body", !.idle = 0]])

\* res.on('data'): a chunk of the body; activity restarts the socket's idle timer
OnData ==
  \E i \in 1..Len(reqs) :
    /\ reqs[i].state = "body"
    /\ InTime(reqs[i])
    /\ reqs[i].idle > 0
    /\ OnlyReqs([reqs EXCEPT ![i] = [@ EXCEPT !.idle = 0]])

\* res.on('end'): the body is complete
OnEndOfBody ==
  \E i \in 1..Len(reqs), raw \in Bodies :
    /\ reqs[i].state = "body"
    /\ InTime(reqs[i])
    /\ Complete(i, OnEnd(raw))

\* req.on('error'): the socket fails
OnError ==
  \E i \in 1..Len(reqs), e \in SocketErrors :
    /\ Live(reqs[i])
    /\ InTime(reqs[i])
    /\ Complete(i, Rejected(e))

\* req.setTimeout: the socket has been idle for 15 s; req.destroy(error)
\* makes the request emit 'error'
OnTimeout ==
  \E i \in 1..Len(reqs) :
    /\ Live(reqs[i])
    /\ reqs[i].idle >= TimeoutTicks
    /\ Complete(i, Rejected(Err("Request timeout")))

\* the peer closes the connection in the middle of the body: the response
\* emits 'aborted' and 'close', neither 'end' nor an 'error' of the request,
\* and the destroyed socket has no timeout any more
OnAborted ==
  \E i \in 1..Len(reqs) :
    /\ reqs[i].state = "body"
    /\ InTime(reqs[i])
    /\ OnlyReqs([reqs EXCEPT ![i] = [@ EXCEPT !.state = "aborted", !.idle = 0]])

\* TickMs pass; a socket idle for 15 s times out before more time passes and
\* before anything else arrives on it (InTime)
Tick ==
  /\ \A i \in 1..Len(reqs) : Live(reqs[i]) => reqs[i].idle < TimeoutTicks
  /\ \E i \in 1..Len(reqs) : Live(reqs[i]) \/ reqs[i].elapsed < MaxElapsed
  /\ OnlyReqs([i \in 1..Len(reqs) |->
       [reqs[i] EXCEPT !.idle = IF Live(reqs[i]) THEN @ + 1 ELSE @,
                       !.elapsed = IF @ < MaxElapsed THEN @ + 1 ELSE @]])

Next ==
  \/ Activate
  \/ RefreshCommand
  \/ TimerTick
  \/ ConfigChange
  \/ OtherConfigChange
  \/ Dispose
  \/ OnResponse
  \/ OnData
  \/ OnEndOfBody
  \/ OnError
  \/ OnTimeout
  \/ OnAborted
  \/ Tick

Spec == Init /\ [][Next]_vars

(* ----------------------- the timer keeps firing ----------------------- *)
Min(a, b) == IF a <= b THEN a ELSE b

\* the counters stay at their bound
Capped(s) == [s EXCEPT !.requests = Min(s.requests, MaxTriggers)]

\* an interval timer fires once the counters are at their bound
LateTimerTick ==
  /\ triggers = MaxTriggers
  /\ \E t \in timers, throws \in BOOLEAN : SetProg(Capped(refreshOnce(Prog, throws)))
  /\ UNCHANGED <<phase, cfg, otherConfig, triggers>>

LiveNext == Next \/ LateTimerTick

\* a running interval timer fires again and again, time passes, and a socket
\* that is idle for 15 s times out; nothing is assumed of the remote endpoint
FairSpec ==
  /\ Init /\ [][LiveNext]_vars
  /\ WF_vars(TimerTick \/ LateTimerTick)
  /\ WF_vars(Tick)
  /\ WF_vars(OnTimeout)

(* ======================================================================= *)
(*                               the claims                                *)
(* ======================================================================= *)
item == items[Len(items)]

\* C1: at most one request is in flight at any time, and a refresh trigger
\* that arrives while a fetch is in flight issues no request.
C1_AtMostOneFetch ==
  /\ [](Len(reqs) <= 1)
  /\ [][(reqs # <<>> /\ triggers' = triggers + 1) => requests' = requests]_vars

\* two triggers before the first fetch completed, one request
C1_Witness == triggers = 2 /\ requests = 1 /\ Len(reqs) = 1 /\ ~lastPoll.done

\* C2: the in-flight marker is set exactly while a fetch is pending (so it is
\* clear once the fetch has completed, also when the request failed while
\* being issued), and a trigger that finds no fetch pending starts a request.
C2_MarkerClearedOnCompletion ==
  /\ [](inFlight <=> reqs # <<>>)
  /\ [][(reqs = <<>> /\ triggers' = triggers + 1) => requests' = requests + 1]_vars

\* a request failed while being issued, and the next trigger started a new one
C2_Witness ==
  /\ lastPoll.done /\ lastPoll.error = Err("request failed")
  /\ requests = 2 /\ inFlight /\ Len(reqs) = 1

\* C3: a fetch that has not completed by the 15-second deadline fails with a
\* timeout error: no request is still pending after more than 15 s.
C3_CompletesByDeadline ==
  \A i \in 1..Len(reqs) : reqs[i].elapsed * TickMs <= TimeoutMs

\* C4: from the completion of a failed poll until the next poll starts, the
\* text is the placeholder and the tooltip carries the failure's message.
C4_FailureShowsPlaceholder ==
  (lastPoll.done /\ ~lastPoll.ok /\ ~inFlight) =>
    (item.text = PlaceholderText /\ item.tooltip = ErrorTooltip(lastPoll.error))

\* a poll has timed out over a price on display
C4_Witness ==
  /\ lastPoll.done /\ lastPoll.error = Err("Request timeout") /\ lastPoll.before = "price"
  /\ ~inFlight /\ item.text = PlaceholderText

\* C5: the promise of a poll, and with it the btcTicker.refresh command, never
\* ends with an error, and while the extension is active its timer is running.
C5_NoFailurePropagates ==
  /\ lastSettle # "rejected"
  /\ cmdOutcome # "rejected"
  /\ phase = "active" => \E t \in timers : t.id = timer

\* an awaited refresh command has ended normally on a failed poll
C5_Witness ==
  /\ lastPoll.done /\ ~lastPoll.ok /\ cmdOutcome = "fulfilled" /\ phase = "active"
  /\ timers # {}

\* C6: the running timer's period is exactly max(10, refreshIntervalSeconds)
\* seconds, 60 taken for an unset value.
C6_EffectiveInterval ==
  LET configured == IF cfg.secs = <<>> THEN 60 ELSE cfg.secs[1]
      wanted == IF configured < 10 THEN 10 ELSE configured
  IN  phase = "active" =>
        \A t \in timers : t.delay \div 1000 = wanted /\ t.delay % 1000 = 0

\* C7: at most one interval timer is running, and while the extension is
\* active it is the one whose handle the variable timer holds.
C7_OneTimer ==
  /\ Cardinality(timers) <= 1
  /\ phase = "active" => timers = {t \in timers : t.id = timer} /\ timers # {}

\* a configuration change has replaced the timer of the activation
C7_Witness == phase = "active" /\ timer = 2 /\ Cardinality(timers) = 1

\* C8: a request is issued only in a step that is a refresh trigger finding no
\* fetch in flight, one request for it; so requests never outnumber triggers.
C8_NoInternalRetry ==
  /\ [][requests' # requests =>
          (reqs = <<>> /\ triggers' = triggers + 1 /\ requests' = requests + 1)]_vars
  /\ [](requests <= triggers)

\* a poll has failed after a collapsed trigger, and nothing is in flight
C8_Witness ==
  /\ lastPoll.done /\ ~lastPoll.ok /\ reqs = <<>> /\ ~inFlight
  /\ triggers = 2 /\ requests = 1

\* C9: from the completion of a successful poll until the next poll starts,
\* the text is the formatted price that this poll fetched.
C9_SuccessShowsPrice ==
  (lastPoll.done /\ lastPoll.ok /\ ~inFlight) =>
    (item.text = PriceText(lastPoll.value) /\ item.tooltip = SuccessTooltip)

\* a failed poll was followed by a successful one, which shows $ 1,234.57
C9_Witness ==
  /\ lastPoll.done /\ lastPoll.ok /\ lastPoll.before = "failure" /\ ~inFlight
  /\ item.text = <<"B", "T", "C", " ", "$", " ", "1", ",", "2", "3", "4", ".", "5", "7">>

\* C10 as stated: every price a successful poll yields is finite and not
\* negative.
C10_FiniteNonNegativePrice ==
  (lastPoll.done /\ lastPoll.ok) => (lastPoll.value.k = "fin" /\ lastPoll.value.milli >= 0)

AmountOf(j) ==
  IF j.t = "null" \/ j.data = <<>> THEN <<>> ELSE j.data[1].amount

\* C10 as amended: every price a successful poll yields is a finite number and
\* is what the display renders; a response whose amount is missing, empty or
\* not convertible to a finite number ends the poll in the error state.
C10_FinitePrice ==
  LET amount == AmountOf(lastPoll.json) IN
  /\ (lastPoll.done /\ lastPoll.ok) =>
       /\ lastPoll.value.k = "fin"
       /\ amount # <<>> /\ lastPoll.value = ToNumber(amount[1])
  /\ (lastPoll.done /\ lastPoll.ok /\ ~inFlight) =>
       item.text \notin {PriceText(NaN), PriceText(Inf)}
  /\ (lastPoll.done /\ (amount = <<>> \/ amount[1] = <<>> \/ ~IsFinite(ToNumber(amount[1])))) =>
       ~lastPoll.ok

\* a poll was given the amount "Infinity" and shows the placeholder
C10_Witness ==
  /\ lastPoll.done /\ ~lastPoll.ok /\ ~inFlight
  /\ AmountOf(lastPoll.json) = <<InfinityWord>>
  /\ item.text = PlaceholderText

\* C11 as stated: only a 2xx response whose amount is a numeric string yields a
\* price; a 2xx response with a JSON body whose data or amount is missing or
\* whose amount is not numeric fails with a parse error; an HTTP error is
\* raised for a non-2xx status only, and the kinds of error are distinct.
NumericString(s) ==
  LET u == IF s # <<>> /\ Head(s) \in {"+", "-"} THEN Tail(s) ELSE s IN IsDecimal(u)

ParseErrors ==
  {Err("Unexpected token"), Err("Cannot read properties of null"),
   Err("Unexpected Coinbase response"), Err("Invalid price")}

C11_Classification ==
  LET amount == AmountOf(lastPoll.json) IN
  lastPoll.done =>
    /\ lastPoll.ok => (amount # <<>> /\ NumericString(amount[1]))
    /\ (lastPoll.json.t = "object" /\ (amount = <<>> \/ ~NumericString(amount[1]))) =>
         (~lastPoll.ok /\ lastPoll.error \in ParseErrors)
    /\ (~lastPoll.ok /\ lastPoll.error.message = "HTTP") => BadStatus(lastPoll.error.code)
    /\ (~lastPoll.ok /\ lastPoll.error.message # "HTTP") => lastPoll.error.code = 0
    /\ Err("Request timeout") \notin ParseErrors

ResultText(p) == IF p.ok THEN PriceText(p.value) ELSE PlaceholderText
ResultTooltip(p) == IF p.ok THEN SuccessTooltip ELSE ErrorTooltip(p.error)

\* C13: a btcTicker.refresh invocation made while a fetch is in flight ends in
\* the step in which that fetch completes, not before and not later, normally,
\* and the item then shows that fetch's result.
C13_JoinersCompleteWithFetch ==
  /\ [](waiters > 0 => reqs # <<>>)
  /\ [][(reqs # <<>> /\ (waiters' < waiters \/ cmdOutcome' # cmdOutcome)) =>
          /\ Len(reqs') < Len(reqs)
          /\ waiters' = 0 /\ cmdOutcome' = "fulfilled"
          /\ item'.text = ResultText(lastPoll')
          /\ item'.tooltip = ResultTooltip(lastPoll')]_vars
  /\ [][(waiters > 0 /\ Len(reqs') < Len(reqs)) => waiters' = 0]_vars

\* the command joined the fetch of the activation and ended with it
C13_Witness ==
  /\ triggers = 2 /\ requests = 1 /\ cmdOutcome = "fulfilled"
  /\ lastPoll.done /\ lastPoll.ok /\ reqs = <<>> /\ waiters = 0

\* C14: a change of the btcTicker configuration replaces the timer by one made
\* from the new refreshIntervalSeconds and calls refreshOnce in the same step
\* (a request is issued unless one is in flight); a change outside btcTicker
\* leaves timer, items, marker and requests as they are.
C14_ConfigChangeEffect ==
  /\ [][cfg' # cfg =>
          /\ timer' # timer
          /\ timers' = {[id |-> timer',
                         delay |-> IntervalDelay(getConfig(cfg').refreshIntervalSeconds)]}
          /\ triggers' = triggers + 1
          /\ IF reqs = <<>> THEN requests' = requests + 1
             ELSE requests' = requests /\ reqs' = reqs]_vars
  /\ [][otherConfig' # otherConfig =>
          UNCHANGED <<timer, timers, items, inFlight, reqs, requests, triggers,
                      currentAlignment, currentPriority>>]_vars

\* both kinds of change have happened while the first fetch was in flight; the
\* timer is the second one, with the 30 s of the new configuration
C14_Witness ==
  /\ otherConfig = 1 /\ timer = 2 /\ timers = {[id |-> 2, delay |-> 30000]}
  /\ triggers = 2 /\ requests = 1 /\ reqs # <<>>

LiveItems == {i \in 1..Len(items) : ~items[i].disposed}

C16_ResultOnLiveItem ==
  /\ [][Len(reqs') < Len(reqs) =>
          /\ item'.text = ResultText(lastPoll')
          /\ item'.tooltip = ResultTooltip(lastPoll')
          /\ phase = "active" => ~item'.disposed]_vars
  /\ [][(Len(items') > Len(items) /\ reqs # <<>>) =>
          (requests' = requests /\ reqs' = reqs)]_vars

\* the item was recreated during the only fetch, whose price is on the new item
C16_Witness ==
  /\ phase = "active" /\ requests = 1 /\ Len(items) = 2 /\ lastPoll.done /\ lastPoll.ok
  /\ items[2].text = PriceText(lastPoll.value) /\ items[1].text = LoadingText

\* C17: once activated, the marker is set exactly when the text is the loading
\* indicator, and a price on display is the price of the last completed poll.
C17_LoadingIffInFlight ==
  phase # "inactive" =>
    /\ inFlight <=> item.text = LoadingText
    /\ item.text \notin {LoadingText, PlaceholderText} =>
         (lastPoll.done /\ lastPoll.ok /\ item.text = PriceText(lastPoll.value))

\* a second poll is in flight and the loading indicator has replaced a price
C17_Witness ==
  /\ phase = "active" /\ requests = 2 /\ inFlight /\ lastPoll.ok
  /\ item.text = LoadingText /\ item.tooltip = SuccessTooltip

\* C18: after disposal no timer is running, and no step calls refreshOnce or
\* issues a request: requests that are pending can only complete.
C18_QuietAfterDisposal ==
  /\ [](phase = "disposed" => timers = {})
  /\ [][phase = "disposed" =>
          /\ phase' = "disposed"
          /\ requests' = requests /\ triggers' = triggers
          /\ Len(reqs') <= Len(reqs)]_vars

\* disposed while a fetch was in flight; that fetch has completed since
C18_Witness ==
  /\ phase = "disposed" /\ timer # 0 /\ timers = {}
  /\ requests = 1 /\ triggers = 1 /\ lastPoll.done /\ reqs = <<>>
  /\ item.disposed /\ item.text = ResultText(lastPoll)

\* a step that starts a poll: a request is sent, or fails while being issued
PollStarts == Len(reqs') > Len(reqs) \/ (reqs = <<>> /\ lastPoll' # lastPoll)

\* C12: in a behaviour in which the extension stays active from some point on,
\* polls are started again and again.
C12_KeepsRefreshing == []<>(phase # "active") \/ []<><<PollStarts>>_vars

====
